---- MODULE Spec2Model ----
(***************************************************************************)
(* The delivery dashboard script (src/dashboard/dashboard.py) as a state   *)
(* machine.  The script runs top to bottom: the sidebar widgets, the row   *)
(* filter, then one block per metric or chart.  An exception raised by a   *)
(* block (a KeyError for a column the table lacks) ends the run.           *)
(*                                                                         *)
(* Values.  A nullable number (delivery_delay) is a sequence of length at  *)
(* most one: <<>> is NaN, <<v>> is the value v.  A missing string cell is  *)
(* the string NULL.  A mean is the exact quotient sum/n kept as the record *)
(* [sum, n]; n = 0 is the NaN pandas returns for the mean of nothing.      *)
(***************************************************************************)
EXTENDS Integers, Sequences, FiniteSets, TLC

VARIABLES df, columns, selected_states, date_range, filtered_df, pc,
          computed, failed,
          total_orders, on_time_percentage, avg_delay, total_states,
          state_delay, status_dist, top_delayed, corr_matrix,
          weight_performance, monthly_trend, weekday_perf

inputs == <<df, columns, selected_states, date_range, filtered_df>>
metrics == <<total_orders, on_time_percentage, avg_delay, total_states>>
charts == <<state_delay, status_dist, top_delayed, corr_matrix,
            weight_performance, monthly_trend, weekday_perf>>
vars == <<inputs, pc, computed, failed, metrics, charts>>

----------------------------------------------------------------------------
(* Bounds of the model *)

\* rows of the loaded table
MaxRows == 3
\* rows of the loaded table in the specification of the row filter
MaxFilterRows == 2
\* rows after the leading ones in the specification of the ranking
MaxCategoryRows == 2
\* leading rows, one per product category, in the specification of the ranking
MaxPad == 10

----------------------------------------------------------------------------
(* Value domains, each listed in ascending order (the order a sort gives) *)

NULL == "NaN"
NaN == <<>>

StateOrder == <<"RJ", "SP">>
StatusOrder == <<"Delayed", "On Time">>
WeightOrder == <<"Heavy", "Light">>
OrderIdOrder == <<"A", "B", "C">>
DateOrder == << <<2017, 12, 31>>, <<2018, 1, 1>>, <<2018, 1, 2>> >>
TimesOfDay == {0, 23}
CategoryOrder == <<"agro", "air", "art", "audio", "auto", "baby", "bed",
                   "books", "cds", "cool", "diapers", "drinks", "dvds",
                   "toys", "watches">>
\* lexicographic order of the weekday labels the rows carry
WeekdayOrder == <<"Friday", "Holiday", "Monday", "Sunday", "Tuesday">>

Range(s) == {s[i] : i \in 1..Len(s)}

AllColumns == {"order_id", "customer_state", "order_purchase_timestamp",
               "order_delivered_customer_date", "order_estimated_delivery_date",
               "delivery_delay", "delivery_status", "product_category_name",
               "product_weight_g", "product_length_cm", "product_height_cm",
               "product_width_cm", "volume", "weight_category", "order_weekday"}

\* load_data converts these itself, so a table without them never loads
date_columns == {"order_purchase_timestamp", "order_delivered_customer_date",
                 "order_estimated_delivery_date"}

corr_features == {"delivery_delay", "product_weight_g", "product_length_cm",
                  "product_height_cm", "product_width_cm", "volume"}

weekdays == <<"Monday", "Tuesday", "Wednesday", "Thursday", "Friday",
              "Saturday", "Sunday">>

\* the blocks of the script after the filter, in evaluation order
Blocks == <<"total_orders", "on_time_percentage", "avg_delay", "total_states",
            "state_delay", "status_dist", "top_delayed", "corr_matrix",
            "weight_performance", "monthly_trend", "weekday_perf">>

----------------------------------------------------------------------------
(* Series helpers *)

RECURSIVE Sum(_)
Sum(s) == IF s = <<>> THEN 0 ELSE Head(s) + Sum(Tail(s))

Col(rows, c) == [i \in 1..Len(rows) |-> rows[i][c]]

\* boolean indexing: the rows whose mask entry is TRUE, in table order
RECURSIVE BoolIndex(_, _)
BoolIndex(rows, mask) ==
    IF rows = <<>> THEN <<>>
    ELSE (IF Head(mask) THEN <<Head(rows)>> ELSE <<>>)
         \o BoolIndex(Tail(rows), Tail(mask))

\* Series.mean(): NaN entries are skipped; the mean of nothing is NaN
NotNaN(x) == x # NaN
Values(s) == [i \in 1..Len(SelectSeq(s, NotNaN)) |-> SelectSeq(s, NotNaN)[i][1]]
Mean(s) == [sum |-> Sum(Values(s)), n |-> Len(Values(s))]

IsNaN(m) == m.n = 0
MeanEq(a, b) == a.n # 0 /\ b.n # 0 /\ a.sum * b.n = b.sum * a.n
MeanGT(a, b) == a.n # 0 /\ b.n # 0 /\ a.sum * b.n > b.sum * a.n

\* Series.unique(): the distinct values in order of first appearance
RECURSIVE Unique(_)
Unique(s) ==
    IF s = <<>> THEN <<>>
    ELSE LET u == Unique(SubSeq(s, 1, Len(s) - 1))
             x == s[Len(s)]
         IN IF x \in Range(u) THEN u ELSE Append(u, x)

\* groupby(key): the non-null keys present, sorted ascending
GroupKeys(keys, order) ==
    LET present(k) == k \in Range(keys) IN SelectSeq(order, present)

\* the rows of one group
GroupRows(rows, keys, k) == BoolIndex(rows, [i \in 1..Len(rows) |-> keys[i] = k])

\* groupby(key)['delivery_delay'].mean()
GroupMean(rows, keys, order) ==
    LET ks == GroupKeys(keys, order)
    IN [i \in 1..Len(ks) |->
          [key |-> ks[i],
           delivery_delay |-> Mean(Col(GroupRows(rows, keys, ks[i]), "delivery_delay"))]]

----------------------------------------------------------------------------
(* The sidebar and the filter, lines 31-55 *)

DateLE(a, b) ==
    \/ a[1] < b[1]
    \/ a[1] = b[1] /\ a[2] < b[2]
    \/ a[1] = b[1] /\ a[2] = b[2] /\ a[3] <= b[3]

\* Timestamp.date(): the calendar date, the time of day dropped
DateOf(ts) == ts.date

MinDate(rows) ==
    CHOOSE d \in Range(Col(rows, "order_purchase_timestamp")) :
        \A e \in Range(Col(rows, "order_purchase_timestamp")) : DateLE(DateOf(d), DateOf(e))
MaxDate(rows) ==
    CHOOSE d \in Range(Col(rows, "order_purchase_timestamp")) :
        \A e \in Range(Col(rows, "order_purchase_timestamp")) : DateLE(DateOf(e), DateOf(d))

\* the dates the date_input widget offers: min_value .. max_value
Offered(rows) ==
    {d \in Range(DateOrder) :
        DateLE(DateOf(MinDate(rows)), d) /\ DateLE(d, DateOf(MaxDate(rows)))}

\* the range taken as open at its end
InDateRangeEndExclusive(ts, range) ==
    DateLE(range[1], DateOf(ts)) /\ DateLE(DateOf(ts), range[2]) /\ DateOf(ts) # range[2]

InDateRange(ts, range) ==
    DateLE(range[1], DateOf(ts)) /\ DateLE(DateOf(ts), range[2])

FilterMask(rows, states, range) ==
    [i \in 1..Len(rows) |->
        /\ rows[i].customer_state \in states
        /\ InDateRange(rows[i].order_purchase_timestamp, range)]

Filter(rows, states, range) == BoolIndex(rows, FilterMask(rows, states, range))

----------------------------------------------------------------------------
(* The metric and chart computations, lines 57-194 *)

\* (Series == value).mean(): the share of TRUE entries
BoolMean(mask) ==
    [sum |-> Cardinality({i \in 1..Len(mask) : mask[i]}), n |-> Len(mask)]

Times(m, k) == [sum |-> m.sum * k, n |-> m.n]

\* the rows counted instead of the distinct order ids
RowCount(rows) == Len(Col(rows, "order_id"))

\* line 61
TotalOrdersOf(rows) == Len(Unique(Col(rows, "order_id")))

\* line 65
OnTimePercentageOf(rows) ==
    Times(BoolMean([i \in 1..Len(rows) |-> rows[i].delivery_status = "On Time"]), 100)

\* the late rows chosen by their status instead of their delay
LateByStatus(rows) ==
    BoolIndex(rows, [i \in 1..Len(rows) |->
                        rows[i].delivery_delay # NaN /\ rows[i].delivery_status # "On Time"])

\* the late rows with a delay of zero taken in
LateOrZero(rows) ==
    BoolIndex(rows, [i \in 1..Len(rows) |->
                        rows[i].delivery_delay # NaN /\ rows[i].delivery_delay[1] >= 0])

\* line 69: NaN > 0 is False, so a row without a delay is not selected
Late(rows) ==
    BoolIndex(rows, [i \in 1..Len(rows) |->
                        rows[i].delivery_delay # NaN /\ rows[i].delivery_delay[1] > 0])

AvgDelayOf(rows) == Mean(Col(Late(rows), "delivery_delay"))

\* line 73
TotalStatesOf(rows) == Len(Unique(Col(rows, "customer_state")))

\* line 83
StateDelayOf(rows) == GroupMean(rows, Col(rows, "customer_state"), StateOrder)

\* sort_values(ascending=False) on this few entries keeps ties in their order
RECURSIVE InsertByCount(_, _)
InsertByCount(x, t) ==
    IF t = <<>> THEN <<x>>
    ELSE IF x.count > Head(t).count THEN <<x>> \o t
         ELSE <<Head(t)>> \o InsertByCount(x, Tail(t))

RECURSIVE SortByCount(_)
SortByCount(s) ==
    IF s = <<>> THEN <<>>
    ELSE InsertByCount(s[Len(s)], SortByCount(SubSeq(s, 1, Len(s) - 1)))

\* line 93: value_counts() drops missing values and sorts by count, largest first
StatusDistOf(rows) ==
    LET present == SelectSeq(Unique(Col(rows, "delivery_status")), LAMBDA v : v # NULL)
    IN SortByCount([i \in 1..Len(present) |->
          [delivery_status |-> present[i],
           count |-> Len(GroupRows(rows, Col(rows, "delivery_status"), present[i]))]])

RECURSIVE InsertByDelay(_, _)
InsertByDelay(x, t) ==
    IF t = <<>> THEN <<x>>
    ELSE IF MeanGT(x.delivery_delay, Head(t).delivery_delay) THEN <<x>> \o t
         ELSE <<Head(t)>> \o InsertByDelay(x, Tail(t))

RECURSIVE SortByDelay(_)
SortByDelay(s) ==
    IF s = <<>> THEN <<>>
    ELSE InsertByDelay(s[Len(s)], SortByDelay(SubSeq(s, 1, Len(s) - 1)))

\* sort_values(ascending=False): largest first, the NaN entries after all others
SortValuesDesc(s) ==
    SortByDelay(SelectSeq(s, LAMBDA g : ~IsNaN(g.delivery_delay)))
    \o SelectSeq(s, LAMBDA g : IsNaN(g.delivery_delay))

TopN == 10

SeqHead(s, n) == SubSeq(s, 1, IF Len(s) < n THEN Len(s) ELSE n)

\* lines 108-111
TopDelayedOf(rows) ==
    SeqHead(SortValuesDesc(GroupMean(rows, Col(rows, "product_category_name"),
                                     CategoryOrder)), TopN)

\* agg 'count': the number of non-null entries of the group
CountOf(s) == Len(SelectSeq(s, LAMBDA v : v # NULL))

\* lines 134-137
WeightPerformanceOf(rows) ==
    LET keys == Col(rows, "weight_category")
        ks == GroupKeys(keys, WeightOrder)
    IN [i \in 1..Len(ks) |->
          [weight_category |-> ks[i],
           delivery_delay |-> Mean(Col(GroupRows(rows, keys, ks[i]), "delivery_delay")),
           order_id |-> CountOf(Col(GroupRows(rows, keys, ks[i]), "order_id"))]]

\* dt.to_period('M')
PeriodOf(ts) == <<ts.date[1], ts.date[2]>>

MonthOrder == Unique([i \in 1..Len(DateOrder) |-> <<DateOrder[i][1], DateOrder[i][2]>>])

\* Period.astype(str): "YYYY-MM"
PeriodStr(p) == ToString(p[1]) \o "-" \o (IF p[2] < 10 THEN "0" ELSE "") \o ToString(p[2])

\* lines 166-169
MonthlyTrendOf(rows) ==
    LET g == GroupMean(rows, [i \in 1..Len(rows) |->
                                PeriodOf(rows[i].order_purchase_timestamp)], MonthOrder)
    IN [i \in 1..Len(g) |->
          [order_purchase_timestamp |-> PeriodStr(g[i].key),
           delivery_delay |-> g[i].delivery_delay]]

\* the grouped series left as it is
NoReindex(g, labels) ==
    [i \in 1..Len(g) |-> [order_weekday |-> g[i].key, delivery_delay |-> g[i].delivery_delay]]

\* Series.reindex(labels): one entry per label, NaN where the series has none
Reindex(g, labels) ==
    [i \in 1..Len(labels) |->
        [order_weekday |-> labels[i],
         delivery_delay |->
            IF \E j \in 1..Len(g) : g[j].key = labels[i]
            THEN g[CHOOSE j \in 1..Len(g) : g[j].key = labels[i]].delivery_delay
            ELSE Mean(<<>>)]]

\* lines 182-185
WeekdayPerfOf(rows) ==
    Reindex(GroupMean(rows, Col(rows, "order_weekday"), WeekdayOrder), weekdays)

----------------------------------------------------------------------------
(* The run of the script *)

\* the columns a block of the script reads from the table
Reads(block) ==
    CASE block = "sidebar" -> {"customer_state", "order_purchase_timestamp"}
      [] block = "filter" -> {"customer_state", "order_purchase_timestamp"}
      [] block = "total_orders" -> {"order_id"}
      [] block = "on_time_percentage" -> {"delivery_status"}
      [] block = "avg_delay" -> {"delivery_delay"}
      [] block = "total_states" -> {"customer_state"}
      [] block = "state_delay" -> {"customer_state", "delivery_delay"}
      [] block = "status_dist" -> {"delivery_status"}
      [] block = "top_delayed" -> {"product_category_name", "delivery_delay"}
      [] block = "corr_matrix" -> corr_features
      [] block = "weight_performance" -> {"weight_category", "delivery_delay", "order_id"}
      [] block = "monthly_trend" -> {"order_purchase_timestamp", "delivery_delay"}
      [] block = "weekday_perf" -> {"order_weekday", "delivery_delay"}

\* a block that ran to its end
Ran(block, next) ==
    /\ pc' = next
    /\ computed' = computed \cup {block}
    /\ failed' = failed

\* a block that raised: Streamlit shows the exception and stops the script
Raise(block) ==
    /\ pc' = "aborted"
    /\ computed' = computed
    /\ failed' = block

\* lines 34-48: the widgets offer the states and the dates of the loaded table
Sidebar ==
    /\ pc = "sidebar"
    /\ IF Reads("sidebar") \subseteq columns
       THEN /\ selected_states' \in SUBSET Range(Unique(Col(df, "customer_state")))
            /\ date_range' \in Offered(df) \X Offered(df)
            /\ Ran("sidebar", "filter")
       ELSE /\ UNCHANGED <<selected_states, date_range>>
            /\ Raise("sidebar")
    /\ UNCHANGED <<df, columns, filtered_df, metrics, charts>>

\* lines 50-55
FilterData ==
    /\ pc = "filter"
    /\ filtered_df' = Filter(df, selected_states, date_range)
    /\ Ran("filter", "total_orders")
    /\ UNCHANGED <<df, columns, selected_states, date_range, metrics, charts>>

\* lines 60-62
TotalOrders ==
    /\ pc = "total_orders"
    /\ IF Reads("total_orders") \subseteq columns
       THEN total_orders' = TotalOrdersOf(filtered_df)
            /\ Ran("total_orders", "on_time_percentage")
       ELSE UNCHANGED total_orders /\ Raise("total_orders")
    /\ UNCHANGED <<inputs, on_time_percentage, avg_delay, total_states, charts>>

\* lines 64-66
OnTimePercentage ==
    /\ pc = "on_time_percentage"
    /\ IF Reads("on_time_percentage") \subseteq columns
       THEN on_time_percentage' = OnTimePercentageOf(filtered_df)
            /\ Ran("on_time_percentage", "avg_delay")
       ELSE UNCHANGED on_time_percentage /\ Raise("on_time_percentage")
    /\ UNCHANGED <<inputs, total_orders, avg_delay, total_states, charts>>

\* lines 68-70
AvgDelay ==
    /\ pc = "avg_delay"
    /\ IF Reads("avg_delay") \subseteq columns
       THEN avg_delay' = AvgDelayOf(filtered_df)
            /\ Ran("avg_delay", "total_states")
       ELSE UNCHANGED avg_delay /\ Raise("avg_delay")
    /\ UNCHANGED <<inputs, total_orders, on_time_percentage, total_states, charts>>

\* lines 72-74
TotalStates ==
    /\ pc = "total_states"
    /\ total_states' = TotalStatesOf(filtered_df)
    /\ Ran("total_states", "state_delay")
    /\ UNCHANGED <<inputs, total_orders, on_time_percentage, avg_delay, charts>>

\* lines 80-89
StateDelay ==
    /\ pc = "state_delay"
    /\ IF Reads("state_delay") \subseteq columns
       THEN state_delay' = StateDelayOf(filtered_df)
            /\ Ran("state_delay", "status_dist")
       ELSE UNCHANGED state_delay /\ Raise("state_delay")
    /\ UNCHANGED <<inputs, metrics, status_dist, top_delayed, corr_matrix,
                   weight_performance, monthly_trend, weekday_perf>>

\* lines 91-100
StatusDist ==
    /\ pc = "status_dist"
    /\ IF Reads("status_dist") \subseteq columns
       THEN status_dist' = StatusDistOf(filtered_df)
            /\ Ran("status_dist", "top_delayed")
       ELSE UNCHANGED status_dist /\ Raise("status_dist")
    /\ UNCHANGED <<inputs, metrics, state_delay, top_delayed, corr_matrix,
                   weight_performance, monthly_trend, weekday_perf>>

\* lines 106-117
TopDelayed ==
    /\ pc = "top_delayed"
    /\ IF Reads("top_delayed") \subseteq columns
       THEN top_delayed' = TopDelayedOf(filtered_df)
            /\ Ran("top_delayed", "corr_matrix")
       ELSE UNCHANGED top_delayed /\ Raise("top_delayed")
    /\ UNCHANGED <<inputs, metrics, state_delay, status_dist, corr_matrix,
                   weight_performance, monthly_trend, weekday_perf>>

\* lines 119-130: the matrix is indexed by corr_features on both axes; its
\* coefficients are not part of the model
CorrMatrix ==
    /\ pc = "corr_matrix"
    /\ IF Reads("corr_matrix") \subseteq columns
       THEN corr_matrix' = corr_features \X corr_features
            /\ Ran("corr_matrix", "weight_performance")
       ELSE UNCHANGED corr_matrix /\ Raise("corr_matrix")
    /\ UNCHANGED <<inputs, metrics, state_delay, status_dist, top_delayed,
                   weight_performance, monthly_trend, weekday_perf>>

\* lines 132-158
WeightPerformance ==
    /\ pc = "weight_performance"
    /\ IF Reads("weight_performance") \subseteq columns
       THEN weight_performance' = WeightPerformanceOf(filtered_df)
            /\ Ran("weight_performance", "monthly_trend")
       ELSE UNCHANGED weight_performance /\ Raise("weight_performance")
    /\ UNCHANGED <<inputs, metrics, state_delay, status_dist, top_delayed,
                   corr_matrix, monthly_trend, weekday_perf>>

\* lines 164-178
MonthlyTrend ==
    /\ pc = "monthly_trend"
    /\ IF Reads("monthly_trend") \subseteq columns
       THEN monthly_trend' = MonthlyTrendOf(filtered_df)
            /\ Ran("monthly_trend", "weekday_perf")
       ELSE UNCHANGED monthly_trend /\ Raise("monthly_trend")
    /\ UNCHANGED <<inputs, metrics, state_delay, status_dist, top_delayed,
                   corr_matrix, weight_performance, weekday_perf>>

\* lines 180-194
WeekdayPerf ==
    /\ pc = "weekday_perf"
    /\ IF Reads("weekday_perf") \subseteq columns
       THEN weekday_perf' = WeekdayPerfOf(filtered_df)
            /\ Ran("weekday_perf", "done")
       ELSE UNCHANGED weekday_perf /\ Raise("weekday_perf")
    /\ UNCHANGED <<inputs, metrics, state_delay, status_dist, top_delayed,
                   corr_matrix, weight_performance, monthly_trend>>

Next ==
    \/ Sidebar
    \/ FilterData
    \/ TotalOrders
    \/ OnTimePercentage
    \/ AvgDelay
    \/ TotalStates
    \/ StateDelay
    \/ StatusDist
    \/ TopDelayed
    \/ CorrMatrix
    \/ WeightPerformance
    \/ MonthlyTrend
    \/ WeekdayPerf

----------------------------------------------------------------------------
(* Loaded tables.  Each specification varies the columns its properties    *)
(* read and keeps the other cells of every row at the values of BaseRow.   *)

BaseRow ==
    [order_id |-> "A", customer_state |-> "SP",
     order_purchase_timestamp |-> [date |-> <<2018, 1, 1>>, time |-> 0],
     delivery_delay |-> <<5>>, delivery_status |-> "Delayed",
     product_category_name |-> "toys", weight_category |-> "Light",
     order_weekday |-> "Monday"]

Tables(rowset, n) == UNION {[1..k -> rowset] : k \in 1..n}

\* the state after load_data() returned `table` with the columns `cols`
Loaded(table, cols) ==
    /\ df = table
    /\ columns = cols
    /\ selected_states = {}
    /\ date_range = <<DateOrder[1], DateOrder[1]>>
    /\ filtered_df = <<>>
    /\ pc = "sidebar"
    /\ computed = {}
    /\ failed = ""
    /\ total_orders = 0
    /\ on_time_percentage = Mean(<<>>)
    /\ avg_delay = Mean(<<>>)
    /\ total_states = 0
    /\ state_delay = <<>>
    /\ status_dist = <<>>
    /\ top_delayed = <<>>
    /\ corr_matrix = {}
    /\ weight_performance = <<>>
    /\ monthly_trend = <<>>
    /\ weekday_perf = <<>>

FilterRowSet ==
    {[BaseRow EXCEPT !.customer_state = s,
                     !.order_purchase_timestamp = [date |-> d, time |-> t]] :
        s \in Range(StateOrder), d \in Range(DateOrder), t \in TimesOfDay}

SummaryRowSet ==
    {[BaseRow EXCEPT !.delivery_delay = d, !.delivery_status = st] :
        d \in {NaN, <<-2>>, <<0>>, <<5>>, <<10>>}, st \in Range(StatusOrder)}

OrdersRowSet ==
    {[BaseRow EXCEPT !.order_id = o, !.weight_category = w, !.delivery_delay = d] :
        o \in Range(OrderIdOrder), w \in Range(WeightOrder), d \in {NaN, <<4>>}}

CategoryRowSet ==
    {[BaseRow EXCEPT !.product_category_name = c, !.delivery_delay = d] :
        c \in {"agro", "toys", "watches", NULL}, d \in {NaN, <<1>>, <<20>>}}

WeekdayRowSet ==
    {[BaseRow EXCEPT !.order_weekday = w, !.delivery_delay = d] :
        w \in {"Monday", "Friday", "Sunday", "Holiday", NULL}, d \in {NaN, <<1>>, <<4>>}}

RunRowSet ==
    {[BaseRow EXCEPT !.customer_state = s, !.delivery_delay = d] :
        s \in Range(StateOrder), d \in {NaN, <<3>>}}

\* one row per product category, the i-th with a delay of i days
PadRows(k) ==
    [i \in 1..k |-> [BaseRow EXCEPT !.product_category_name = CategoryOrder[i],
                                    !.delivery_delay = <<i>>]]

\* tables without one of the columns the script reads after loading
ColumnSets == {AllColumns} \cup {AllColumns \ {c} : c \in AllColumns \ date_columns}

InitFilter == \E t \in Tables(FilterRowSet, MaxFilterRows) : Loaded(t, AllColumns)
InitSummary == \E t \in Tables(SummaryRowSet, MaxRows) : Loaded(t, AllColumns)
InitOrders == \E t \in Tables(OrdersRowSet, MaxRows) : Loaded(t, AllColumns)
InitCategory ==
    \E k \in 0..MaxPad, t \in Tables(CategoryRowSet, MaxCategoryRows) :
        Loaded(PadRows(k) \o t, AllColumns)
InitWeekday == \E t \in Tables(WeekdayRowSet, MaxRows) : Loaded(t, AllColumns)
Init == \E t \in Tables(RunRowSet, MaxRows), cols \in ColumnSets : Loaded(t, cols)

SpecFilter == InitFilter /\ [][Next]_vars
SpecSummary == InitSummary /\ [][Next]_vars
SpecOrders == InitOrders /\ [][Next]_vars
SpecCategory == InitCategory /\ [][Next]_vars
SpecWeekday == InitWeekday /\ [][Next]_vars
Spec == Init /\ [][Next]_vars

----------------------------------------------------------------------------
(* Properties *)

Terminated == pc \in {"done", "aborted"}

RECURSIVE DelaySum(_, _)
\* the sum of the delays of the rows of `rows` at the positions S
DelaySum(rows, S) ==
    IF S = {} THEN 0
    ELSE LET i == CHOOSE j \in S : TRUE
         IN rows[i].delivery_delay[1] + DelaySum(rows, S \ {i})

\* the position of a date in the calendar
Ord(d) == CHOOSE i \in 1..Len(DateOrder) : DateOrder[i] = d

Selected(r) ==
    /\ r.customer_state \in selected_states
    /\ Ord(date_range[1]) <= Ord(r.order_purchase_timestamp.date)
    /\ Ord(r.order_purchase_timestamp.date) <= Ord(date_range[2])

\* C1: the filtered table is a subsequence of the loaded table (its rows, each
\* at most as often, in the same order), every row of it has its state among
\* the selected ones and its purchase date within the range, bounds included,
\* every such row of the loaded table is in it, and no selected state gives
\* the empty table.
C1_FilterNarrowing ==
    "filter" \in computed =>
        /\ \E f \in [1..Len(filtered_df) -> 1..Len(df)] :
              /\ \A i, j \in 1..Len(filtered_df) : i < j => f[i] < f[j]
              /\ \A i \in 1..Len(filtered_df) : filtered_df[i] = df[f[i]]
        /\ \A i \in 1..Len(filtered_df) : Selected(filtered_df[i])
        /\ Len(filtered_df) = Cardinality({i \in 1..Len(df) : Selected(df[i])})
        /\ selected_states = {} => filtered_df = <<>>

\* a row bought late in the last day of the range is kept, another row is dropped
C1_Witness ==
    /\ "filter" \in computed
    /\ Len(filtered_df) < Len(df)
    /\ \E i \in 1..Len(filtered_df) :
          /\ filtered_df[i].order_purchase_timestamp.date = date_range[2]
          /\ filtered_df[i].order_purchase_timestamp.time = 23
          /\ date_range[1] # date_range[2]

StartAfterEnd ==
    /\ "sidebar" \in computed
    /\ Ord(date_range[1]) > Ord(date_range[2])

\* C2: with the start of the range after its end the filter fails before it
\* filters: no filtered table is returned and no view is computed from one.
C2_InvalidRangeRaised ==
    StartAfterEnd =>
        /\ "filter" \notin computed
        /\ computed \cap Range(Blocks) = {}
        /\ pc \notin {"sidebar", "filter"} => failed = "filter"

OnTimeRows == {i \in 1..Len(filtered_df) : filtered_df[i].delivery_status = "On Time"}

\* C3: on_time_pct is 100 times the on-time rows over all rows, and exactly 0
\* (not NaN) when the filtered table is empty.
C3_OnTimePctZeroWhenEmpty ==
    "on_time_percentage" \in computed =>
        IF filtered_df = <<>>
        THEN on_time_percentage.n # 0 /\ on_time_percentage.sum = 0
        ELSE /\ on_time_percentage.n # 0
             /\ on_time_percentage.sum * Len(filtered_df)
                  = 100 * Cardinality(OnTimeRows) * on_time_percentage.n

Without(rows, i) == SubSeq(rows, 1, i - 1) \o SubSeq(rows, i + 1, Len(rows))

\* what the rows at the positions S add to an average: their sum and their number
Share(rows, S) == [sum |-> DelaySum(rows, S), n |-> Cardinality(S)]

HasDelay(r) == r.delivery_delay # NaN
Positive(r) == HasDelay(r) /\ r.delivery_delay[1] > 0

\* C4 as stated: a row with the status "On Time" adds nothing to avg_delay,
\* neither to the sum nor to the number of rows averaged, whatever its delay.
C4_OnTimeNeverCounted ==
    "avg_delay" \in computed =>
        \A i \in OnTimeRows : AvgDelayOf(Without(filtered_df, i)) = avg_delay

\* C4 amended: a row adds to avg_delay exactly when its delay is present and
\* above zero, whatever its status: an "On Time" row with a delay of zero,
\* below zero or missing adds nothing, one with a delay above zero adds its
\* delay to the sum and one to the number of rows.
C4_CountedByDelayNotStatus ==
    "avg_delay" \in computed =>
        \A i \in 1..Len(filtered_df) :
            LET rest == AvgDelayOf(Without(filtered_df, i))
            IN IF Positive(filtered_df[i])
               THEN /\ rest.n = avg_delay.n - 1
                    /\ rest.sum = avg_delay.sum - filtered_df[i].delivery_delay[1]
               ELSE rest = avg_delay

\* an "On Time" row with a delay above zero and a "Delayed" row without one
C4_Witness ==
    /\ "avg_delay" \in computed
    /\ \E i \in OnTimeRows : Positive(filtered_df[i])
    /\ \E i \in 1..Len(filtered_df) :
          ~Positive(filtered_df[i]) /\ filtered_df[i].delivery_status = "Delayed"

PositiveRows == {i \in 1..Len(filtered_df) : Positive(filtered_df[i])}

\* C5: avg_delay is the mean of the delays of exactly the filtered rows with a
\* delay present and above zero, and with no such row it is NaN (not 0) and
\* the block raises nothing.
C5_AvgDelayOverPositive ==
    "avg_delay" \in computed =>
        /\ avg_delay = Share(filtered_df, PositiveRows)
        /\ PositiveRows = {} => IsNaN(avg_delay) /\ ~MeanEq(avg_delay, [sum |-> 0, n |-> 1])
        /\ failed # "avg_delay"

\* two late rows with different delays beside a row that is left out
C5_Witness ==
    /\ "avg_delay" \in computed
    /\ Cardinality({filtered_df[i].delivery_delay : i \in PositiveRows}) >= 2
    /\ PositiveRows # 1..Len(filtered_df)

\* C5, the case without data: rows are there, none of them late
C5_NoDataReached ==
    /\ "avg_delay" \in computed
    /\ filtered_df # <<>>
    /\ PositiveRows = {}

OrderIds(rows) == {rows[i].order_id : i \in 1..Len(rows)}

\* C6: total_orders is the number of distinct order ids of the filtered rows,
\* and a further row with an order id already there leaves the number as it is.
C6_DistinctOrders ==
    "total_orders" \in computed =>
        /\ total_orders = Cardinality(OrderIds(filtered_df))
        /\ \A k \in 1..Len(filtered_df) :
              filtered_df[k].order_id \in OrderIds(SubSeq(filtered_df, 1, k - 1)) =>
                  TotalOrdersOf(SubSeq(filtered_df, 1, k))
                    = TotalOrdersOf(SubSeq(filtered_df, 1, k - 1))

\* an order id twice and another once: two orders in three rows
C6_Witness ==
    /\ "total_orders" \in computed
    /\ Len(filtered_df) = 3
    /\ total_orders = 2

\* C7: the count of each weight category is the number of distinct order ids
\* among the filtered rows of the category.
C7_DistinctOrdersPerWeight ==
    "weight_performance" \in computed =>
        \A e \in 1..Len(weight_performance) :
            weight_performance[e].order_id =
                Cardinality({filtered_df[i].order_id :
                    i \in {j \in 1..Len(filtered_df) :
                            filtered_df[j].weight_category
                              = weight_performance[e].weight_category}})

CategoryRows(c) ==
    {i \in 1..Len(filtered_df) : filtered_df[i].product_category_name = c}

CategoryMean(c) ==
    Share(filtered_df, {i \in CategoryRows(c) : HasDelay(filtered_df[i])})

Returned == {top_delayed[i].key : i \in 1..Len(top_delayed)}

\* C8, without its last part: at most 10 entries, each a category with its
\* mean delay, by falling mean, no category left out above a returned one
TopTenByMean ==
    /\ Len(top_delayed) <= 10
    /\ \A i \in 1..Len(top_delayed) :
          top_delayed[i].delivery_delay = CategoryMean(top_delayed[i].key)
    /\ \A i, j \in 1..Len(top_delayed) :
          i < j => ~MeanGT(top_delayed[j].delivery_delay, top_delayed[i].delivery_delay)
    /\ \A c \in Range(CategoryOrder) \ Returned :
          \A i \in 1..Len(top_delayed) :
              ~MeanGT(CategoryMean(c), top_delayed[i].delivery_delay)

\* C8: the ranking has at most 10 entries by falling mean delay, no category
\* left out has a larger mean than a returned one, and no category whose delays
\* are all missing is returned.
C8_TopTenWithoutUndefined ==
    "top_delayed" \in computed =>
        /\ TopTenByMean
        /\ \A i \in 1..Len(top_delayed) : ~IsNaN(top_delayed[i].delivery_delay)

SevenDays == <<"Monday", "Tuesday", "Wednesday", "Thursday", "Friday",
               "Saturday", "Sunday">>

DayRows(d) == {i \in 1..Len(filtered_df) : filtered_df[i].order_weekday = d}

\* C9: the weekday profile has the seven days Monday to Sunday in that order,
\* a day without rows with a NaN mean, a day with rows with the mean delay of
\* its rows, and rows with another weekday label change no entry and raise
\* nothing.
C9_WeekdayProfileComplete ==
    /\ pc = "done" => "weekday_perf" \in computed
    /\ "weekday_perf" \in computed =>
        /\ Len(weekday_perf) = 7
        /\ \A i \in 1..7 :
              /\ weekday_perf[i].order_weekday = SevenDays[i]
              /\ weekday_perf[i].delivery_delay
                   = Share(filtered_df, {k \in DayRows(SevenDays[i]) : HasDelay(filtered_df[k])})
              /\ DayRows(SevenDays[i]) = {} => IsNaN(weekday_perf[i].delivery_delay)

\* rows on Monday, none on Sunday, and a row with a label outside the week
C9_Witness ==
    /\ "weekday_perf" \in computed
    /\ DayRows("Monday") # {}
    /\ DayRows("Sunday") = {}
    /\ DayRows("Holiday") # {}
    /\ ~IsNaN(weekday_perf[1].delivery_delay)

\* C10: a view that fails stops no other view: when the run is over after a
\* view raised, every view whose columns the table has was computed.
C10_FailureIsolated ==
    (Terminated /\ failed \in Range(Blocks)) =>
        \A i \in 1..Len(Blocks) :
            Reads(Blocks[i]) \subseteq columns => Blocks[i] \in computed

====
